---- MODULE Spec2Model ----
(***************************************************************************)
(* Model of src/index.ts: the value classes ColourRGB and ColourHSL, the   *)
(* helpers padHex and isBadNum, and the hex parser parseHexColour.         *)
(*                                                                         *)
(* JavaScript values are records [t, nan, q, s]: t is the typeof tag, nan  *)
(* marks NaN, q is a number counted in quarters (all such numbers are      *)
(* exact doubles, so 0.25, 0.5, 255.25 ... are representable), s is the    *)
(* character sequence of a string.  Strings are sequences of one-character *)
(* strings.                                                                *)
(***************************************************************************)
EXTENDS Integers, Sequences, FiniteSets, TLC

VARIABLES heap, origin, last

vars == <<heap, origin, last>>

(* ---------------------------- bounds ----------------------------------- *)

MaxObjs == 3    \* instances kept on the heap
MaxLen == 8     \* longest string handed to the constructor

(* ------------------------ JavaScript values ---------------------------- *)

Quarters(k) == [t |-> "number", nan |-> FALSE, q |-> k, s |-> <<>>]
Num(n) == Quarters(4 * n)
NaN == [t |-> "number", nan |-> TRUE, q |-> 0, s |-> <<>>]
Undefined == [t |-> "undefined", nan |-> FALSE, q |-> 0, s |-> <<>>]
Str(chars) == [t |-> "string", nan |-> FALSE, q |-> 0, s |-> chars]

\* ToNumber as the relational operators apply it; only numbers and undefined
\* are ever compared.
ToNumber(v) == IF v.t = "number" THEN v ELSE NaN

\* x < y and x > y: false as soon as an operand is NaN
Less(x, y) ==
    LET a == ToNumber(x)
        b == ToNumber(y)
    IN  ~a.nan /\ ~b.nan /\ a.q < b.q

Greater(x, y) == Less(y, x)

\* x === y
StrictEq(x, y) ==
    /\ x.t = y.t
    /\ CASE x.t = "number" -> ~x.nan /\ ~y.nan /\ x.q = y.q
         [] x.t = "string" -> x.s = y.s
         [] OTHER -> TRUE

\* ToBoolean: undefined, NaN, 0 and "" are falsy
Truthy(v) ==
    CASE v.t = "undefined" -> FALSE
      [] v.t = "number" -> ~v.nan /\ v.q # 0
      [] OTHER -> v.s # <<>>

\* x || y
OrElse(x, y) == IF Truthy(x) THEN x ELSE y

(* --------------------------- number to string -------------------------- *)

DigitChars == <<"0", "1", "2", "3", "4", "5", "6", "7", "8", "9",
                "a", "b", "c", "d", "e", "f">>

RECURSIVE NatToString(_, _)
NatToString(n, radix) ==
    IF n < radix THEN <<DigitChars[n + 1]>>
    ELSE NatToString(n \div radix, radix) \o <<DigitChars[(n % radix) + 1]>>

\* the fraction digits of k quarters in the given radix (10 or 16)
FractionToString(k, radix) ==
    CASE k = 0 -> <<>>
      [] k = 1 -> IF radix = 16 THEN <<".", "4">> ELSE <<".", "2", "5">>
      [] k = 2 -> IF radix = 16 THEN <<".", "8">> ELSE <<".", "5">>
      [] OTHER -> IF radix = 16 THEN <<".", "c">> ELSE <<".", "7", "5">>

\* Number.prototype.toString(radix), and the template-literal conversion of
\* any value with radix 10
NumberToString(v, radix) ==
    CASE v.t = "undefined" -> <<"u", "n", "d", "e", "f", "i", "n", "e", "d">>
      [] v.t = "string" -> v.s
      [] v.nan -> <<"N", "a", "N">>
      [] OTHER ->
           LET m == IF v.q < 0 THEN -v.q ELSE v.q
           IN  (IF v.q < 0 THEN <<"-">> ELSE <<>>)
               \o NatToString(m \div 4, radix)
               \o FractionToString(m % 4, radix)

\* str.substr(-2)
LastTwo(str) ==
    IF Len(str) <= 2 THEN str ELSE SubSeq(str, Len(str) - 1, Len(str))

padHex(num) == LastTwo(<<"0", "0">> \o NumberToString(num, 16))

\* the range check with the upper end excluded
isBadNumExclusive(num, max) ==
    num.t # "number" \/ Less(num, Num(0)) \/ ~Less(num, Num(max))

isBadNum(num, max) ==
    num.t # "number" \/ Less(num, Num(0)) \/ Greater(num, Num(max))

(* ------------------------------ parseHexColour ------------------------- *)

UpperHex == <<"A", "B", "C", "D", "E", "F">>

\* the character class [a-f0-9] under the i flag
IsHexChar(c) ==
    \/ \E i \in 1..16 : DigitChars[i] = c
    \/ \E i \in 1..6 : UpperHex[i] = c

\* the value parseInt gives one hex digit
HexDigitValue(c) ==
    IF \E i \in 1..6 : UpperHex[i] = c
    THEN 9 + (CHOOSE i \in 1..6 : UpperHex[i] = c)
    ELSE (CHOOSE i \in 1..16 : DigitChars[i] = c) - 1

\* parseInt(pair, 16) for a two-digit pair
parseInt16(pair) == 16 * HexDigitValue(pair[1]) + HexDigitValue(pair[2])

\* /^#([a-f0-9])([a-f0-9])([a-f0-9])$/i
MatchComps3(hex) ==
    /\ Len(hex) = 4
    /\ hex[1] = "#"
    /\ \A i \in 2..4 : IsHexChar(hex[i])

\* the six-digit pattern without its closing anchor
MatchComps6Unanchored(hex) ==
    /\ Len(hex) >= 7
    /\ hex[1] = "#"
    /\ \A i \in 2..7 : IsHexChar(hex[i])

\* /^#([a-f0-9]{2})([a-f0-9]{2})([a-f0-9]{2})$/i
MatchComps6(hex) ==
    /\ Len(hex) = 7
    /\ hex[1] = "#"
    /\ \A i \in 2..7 : IsHexChar(hex[i])

ErrHex == "Invalid hex colour"
ErrRGB == "Invalid ColourRGB arguments"
ErrHSL == "Invalid ColourHSL arguments"

NoObj == [cls |-> "none"]

Thrown(msg) == [err |-> msg, obj |-> NoObj]
Returned(o) == [err |-> "", obj |-> o]

\* the parser reading each short-form digit once instead of doubling it
parseHexColourNoDoubling(hex) ==
    IF MatchComps3(hex)
    THEN Returned([r |-> Num(HexDigitValue(hex[2])),
                   g |-> Num(HexDigitValue(hex[3])),
                   b |-> Num(HexDigitValue(hex[4])),
                   a |-> Num(1)])
    ELSE IF MatchComps6(hex)
    THEN Returned([r |-> Num(parseInt16(SubSeq(hex, 2, 3))),
                   g |-> Num(parseInt16(SubSeq(hex, 4, 5))),
                   b |-> Num(parseInt16(SubSeq(hex, 6, 7))),
                   a |-> Num(1)])
    ELSE Thrown(ErrHex)

parseHexColour(hex) ==
    IF MatchComps3(hex)
    THEN Returned([r |-> Num(parseInt16(<<hex[2], hex[2]>>)),
                   g |-> Num(parseInt16(<<hex[3], hex[3]>>)),
                   b |-> Num(parseInt16(<<hex[4], hex[4]>>)),
                   a |-> Num(1)])
    ELSE IF MatchComps6(hex)
    THEN Returned([r |-> Num(parseInt16(SubSeq(hex, 2, 3))),
                   g |-> Num(parseInt16(SubSeq(hex, 4, 5))),
                   b |-> Num(parseInt16(SubSeq(hex, 6, 7))),
                   a |-> Num(1)])
    ELSE Thrown(ErrHex)

(* -------------------------------- ColourRGB ---------------------------- *)

\* args[i], undefined past the end of the argument list
ArgAt(args, i) == IF i <= Len(args) THEN args[i] ELSE Undefined

\* args.length === 1 && typeof args[0] === 'string' && args[0].charAt(0) === '#'
IsHexShape(args) ==
    /\ Len(args) = 1
    /\ args[1].t = "string"
    /\ Len(args[1].s) >= 1
    /\ args[1].s[1] = "#"

RGBRangeBad(f) ==
    \/ isBadNum(f.r, 255)
    \/ isBadNum(f.g, 255)
    \/ isBadNum(f.b, 255)
    \/ isBadNum(f.a, 1)

RGBInstance(f) ==
    [cls |-> "ColourRGB", r |-> f.r, g |-> f.g, b |-> f.b, a |-> f.a]

\* the numeric branch with a true default: only a missing alpha becomes 1
RGBNumericFieldsKeepZero(args) ==
    [r |-> args[1], g |-> args[2], b |-> args[3],
     a |-> IF ArgAt(args, 4).t = "undefined" THEN Num(1) ELSE ArgAt(args, 4)]

\* the fields the numeric branch assigns
RGBNumericFields(args) ==
    [r |-> args[1], g |-> args[2], b |-> args[3],
     a |-> OrElse(ArgAt(args, 4), Num(1))]

\* new ColourRGB(...args)
ColourRGB(args) ==
    IF IsHexShape(args)
    THEN LET hexColour == parseHexColour(args[1].s)
         IN  IF hexColour.err # "" THEN Thrown(hexColour.err)
             ELSE IF RGBRangeBad(hexColour.obj) THEN Thrown(ErrRGB)
             ELSE Returned(RGBInstance(hexColour.obj))
    ELSE IF Len(args) = 3 \/ Len(args) = 4
    THEN IF RGBRangeBad(RGBNumericFields(args)) THEN Thrown(ErrRGB)
         ELSE Returned(RGBInstance(RGBNumericFields(args)))
    ELSE Thrown(ErrRGB)

\* alpha scaling the receiver's alpha instead of replacing it
RGBalphaCompound(this, alpha) ==
    ColourRGB(<<this.r, this.g, this.b,
                IF alpha.t = "number" /\ ~alpha.nan
                THEN Quarters((this.a.q * alpha.q) \div 4) ELSE alpha>>)

\* ColourRGB.prototype.alpha
RGBalpha(this, alpha) == ColourRGB(<<this.r, this.g, this.b, alpha>>)

\* ColourRGB.prototype.toString
RGBtoString(this) ==
    IF StrictEq(this.a, Num(1))
    THEN <<"#">> \o padHex(this.r) \o padHex(this.g) \o padHex(this.b)
    ELSE <<"r", "g", "b", "a", "(">> \o NumberToString(this.r, 10)
         \o <<",", " ">> \o NumberToString(this.g, 10)
         \o <<",", " ">> \o NumberToString(this.b, 10)
         \o <<",", " ">> \o NumberToString(this.a, 10) \o <<")">>

(* -------------------------------- ColourHSL ---------------------------- *)

\* the default applied with ||, as in ColourRGB
DefaultOneFalsy(v) == OrElse(v, Num(1))

\* a parameter with the default value 1: undefined selects the default
DefaultOne(v) == IF v.t = "undefined" THEN Num(1) ELSE v

HSLFields(args) ==
    [h |-> ArgAt(args, 1), s |-> ArgAt(args, 2), l |-> ArgAt(args, 3),
     a |-> DefaultOne(ArgAt(args, 4))]

\* the hue checked against the RGB channel maximum
HSLRangeBadHue255(f) ==
    \/ isBadNum(f.h, 255)
    \/ isBadNum(f.s, 100)
    \/ isBadNum(f.l, 100)
    \/ isBadNum(f.a, 1)

HSLRangeBad(f) ==
    \/ isBadNum(f.h, 360)
    \/ isBadNum(f.s, 100)
    \/ isBadNum(f.l, 100)
    \/ isBadNum(f.a, 1)

HSLInstance(f) ==
    [cls |-> "ColourHSL", h |-> f.h, s |-> f.s, l |-> f.l, a |-> f.a]

\* new ColourHSL(h, s, l, a = 1)
ColourHSL(args) ==
    IF HSLRangeBad(HSLFields(args)) THEN Thrown(ErrHSL)
    ELSE Returned(HSLInstance(HSLFields(args)))

\* ColourHSL.prototype.alpha
HSLalpha(this, alpha) == ColourHSL(<<this.h, this.s, this.l, alpha>>)

\* ColourHSL.prototype.toString
HSLtoString(this) ==
    IF StrictEq(this.a, Num(1))
    THEN <<"h", "s", "l", "(">> \o NumberToString(this.h, 10)
         \o <<",", " ">> \o NumberToString(this.s, 10) \o <<"%">>
         \o <<",", " ">> \o NumberToString(this.l, 10) \o <<"%", ")">>
    ELSE <<"h", "s", "l", "a", "(">> \o NumberToString(this.h, 10)
         \o <<",", " ">> \o NumberToString(this.s, 10) \o <<"%">>
         \o <<",", " ">> \o NumberToString(this.l, 10) \o <<"%">>
         \o <<",", " ">> \o NumberToString(this.a, 10) \o <<")">>

(* ------------------------------- the calls ----------------------------- *)

\* heap: the instances that exist, in creation order.
\* origin[k]: the call that created heap[k]: recv = 0 for a constructor call,
\*            the receiver's index for alpha; args are the call's arguments.
\* last: the most recent call and its outcome (err = "" when it returned).

NoCall == [op |-> "none", recv |-> 0, args |-> <<>>, err |-> "", ret |-> 0,
           str |-> <<>>]

Init ==
    /\ heap = <<>>
    /\ origin = <<>>
    /\ last = NoCall

\* the outcome of a call that constructs: the instance joins the heap, or
\* the error is thrown and nothing is created
Construct(op, recv, args, res) ==
    IF res.err = ""
    THEN /\ heap' = Append(heap, res.obj)
         /\ origin' = Append(origin, [recv |-> recv, args |-> args])
         /\ last' = [op |-> op, recv |-> recv, args |-> args, err |-> "",
                     ret |-> Len(heap) + 1, str |-> <<>>]
    ELSE /\ UNCHANGED <<heap, origin>>
         /\ last' = [op |-> op, recv |-> recv, args |-> args, err |-> res.err,
                     ret |-> 0, str |-> <<>>]

\* The model follows one constructed colour and the instances derived from
\* it: the classes keep no static state, so a construction is independent of
\* every call made before it.
Fresh == last.op = "none"

NewColourRGB(args) ==
    /\ Fresh
    /\ Construct("new ColourRGB", 0, args, ColourRGB(args))

NewColourHSL(args) ==
    /\ Fresh
    /\ Construct("new ColourHSL", 0, args, ColourHSL(args))

\* alpha writing the new alpha into the receiver and returning the receiver
CallRGBalphaInPlace(i, alpha) ==
    /\ i \in 1..Len(heap)
    /\ Len(heap) < MaxObjs
    /\ heap[i].cls = "ColourRGB"
    /\ LET res == RGBalpha(heap[i], alpha)
       IN  IF res.err = ""
           THEN /\ heap' = [heap EXCEPT ![i] = res.obj]
                /\ UNCHANGED origin
                /\ last' = [op |-> "alpha", recv |-> i, args |-> <<alpha>>,
                            err |-> "", ret |-> i, str |-> <<>>]
           ELSE Construct("alpha", i, <<alpha>>, res)

CallRGBalpha(i, alpha) ==
    /\ i \in 1..Len(heap)
    /\ Len(heap) < MaxObjs
    /\ heap[i].cls = "ColourRGB"
    /\ Construct("alpha", i, <<alpha>>, RGBalpha(heap[i], alpha))

CallHSLalpha(i, alpha) ==
    /\ i \in 1..Len(heap)
    /\ Len(heap) < MaxObjs
    /\ heap[i].cls = "ColourHSL"
    /\ Construct("alpha", i, <<alpha>>, HSLalpha(heap[i], alpha))

Stringify(i, str) ==
    /\ UNCHANGED <<heap, origin>>
    /\ last' = [op |-> "toString", recv |-> i, args |-> <<>>, err |-> "",
                ret |-> 0, str |-> str]

CallRGBtoString(i) ==
    /\ i \in 1..Len(heap)
    /\ heap[i].cls = "ColourRGB"
    /\ Stringify(i, RGBtoString(heap[i]))

CallHSLtoString(i) ==
    /\ i \in 1..Len(heap)
    /\ heap[i].cls = "ColourHSL"
    /\ Stringify(i, HSLtoString(heap[i]))

(* ------------------------------- the inputs ---------------------------- *)

\* numbers around each channel's range: just below, the two ends, the next
\* integer above, and undefined
AroundRange(max) ==
    {Undefined, Quarters(-1), Num(0), Num(max), Num(max + 1)}

RedInputs == AroundRange(255) \cup {NaN, Quarters(2)}
RGBChannelInputs == AroundRange(255) \cup {NaN}
HueInputs == AroundRange(360)
SaturationInputs == AroundRange(100)
LightnessInputs == AroundRange(100) \cup {Num(50)}
AlphaInputs == {Quarters(-1), Num(0), Quarters(2), Num(1), Quarters(5)}

\* three channels, with or without a fourth argument
NumericArgs(c1, c2, c3) ==
    {<<x, y, z>> : x \in c1, y \in c2, z \in c3}
    \cup {<<x, y, z, w>> : x \in c1, y \in c2, z \in c3, w \in AlphaInputs}

RGBNumericArgs == NumericArgs(RedInputs, RGBChannelInputs, RGBChannelInputs)
HSLArgs == NumericArgs(HueInputs, SaturationInputs, LightnessInputs)

\* the strings of the specification's examples
ExampleStrings ==
    {<<"#", "f", "0", "0">>, <<"#", "F", "0", "0">>, <<"#", "0", "f", "0">>,
     <<"#", "x", "y", "z">>, <<"#", "0", "0", "f", "F", "a", "9">>,
     <<"f", "0", "0">>, <<>>}

\* argument lists of no accepted shape
RGBOtherArgs ==
    {<<>>, <<Num(0)>>, <<Num(0), Num(0)>>,
     <<Num(0), Num(0), Num(0), Num(1), Num(0)>>,
     <<Str(<<"#", "f", "0", "0">>), Num(0)>>}

Next ==
    \/ Fresh /\ \E args \in RGBNumericArgs : NewColourRGB(args)
    \/ Fresh /\ \E args \in RGBOtherArgs : NewColourRGB(args)
    \/ Fresh /\ \E str \in ExampleStrings : NewColourRGB(<<Str(str)>>)
    \/ Fresh /\ \E args \in HSLArgs : NewColourHSL(args)
    \/ \E i \in 1..MaxObjs, alpha \in AlphaInputs : CallRGBalpha(i, alpha)
    \/ \E i \in 1..MaxObjs, alpha \in AlphaInputs : CallHSLalpha(i, alpha)
    \/ \E i \in 1..MaxObjs : CallRGBtoString(i)
    \/ \E i \in 1..MaxObjs : CallHSLtoString(i)

Spec == Init /\ [][Next]_vars

(* --------------- a construction from a string, then toString ----------- *)

\* '#', a digit, a lower-case and an upper-case hex letter, and a letter that
\* is no hex digit
HexAlphabet == {"#", "0", "f", "A", "g"}

HexStrings(n) == [1..n -> HexAlphabet]

NextHex ==
    \/ Fresh /\ \E n \in 0..MaxLen : \E str \in HexStrings(n) :
                    NewColourRGB(<<Str(str)>>)
    \/ \E i \in 1..MaxObjs : CallRGBtoString(i)

SpecHex == Init /\ [][NextHex]_vars

(* ------------------------ vocabulary of the claims --------------------- *)

InvalidColourArguments == {ErrRGB, ErrHSL}
InvalidHexColour == ErrHex

HexDigitSet ==
    {"0", "1", "2", "3", "4", "5", "6", "7", "8", "9",
     "a", "b", "c", "d", "e", "f", "A", "B", "C", "D", "E", "F"}

\* '#' followed by exactly 3 or exactly 6 hex digits
IsHexColourString(str) ==
    /\ Len(str) \in {4, 7}
    /\ str[1] = "#"
    /\ \A i \in 2..Len(str) : str[i] \in HexDigitSet

LowerCase(c) ==
    CASE c = "A" -> "a" [] c = "B" -> "b" [] c = "C" -> "c"
      [] c = "D" -> "d" [] c = "E" -> "e" [] c = "F" -> "f"
      [] OTHER -> c

\* the canonical form: six lower-case digits, short-form digits doubled
Canonical(str) ==
    IF Len(str) = 4
    THEN <<"#", LowerCase(str[2]), LowerCase(str[2]),
           LowerCase(str[3]), LowerCase(str[3]),
           LowerCase(str[4]), LowerCase(str[4])>>
    ELSE [i \in 1..7 |-> LowerCase(str[i])]

\* the last call was new ColourRGB(str) with a single string argument
StringConstruction ==
    /\ last.op = "new ColourRGB"
    /\ Len(last.args) = 1
    /\ last.args[1].t = "string"

\* instance k was constructed from a single string argument
MadeFromString(k) ==
    /\ origin[k].recv = 0
    /\ Len(origin[k].args) = 1
    /\ origin[k].args[1].t = "string"

\* C1: every '#' + 3 or 6 hex digits string, in any mix of case, constructs a
\* ColourRGB with alpha 1 whose toString() is the canonical lower-case
\* six-digit form, a short form having each digit doubled.
C1_HexRoundTrip ==
    /\ (StringConstruction /\ IsHexColourString(last.args[1].s))
          => /\ last.err = ""
             /\ heap[last.ret].cls = "ColourRGB"
             /\ heap[last.ret].a = Num(1)
    /\ (/\ last.op = "toString"
        /\ MadeFromString(last.recv)
        /\ IsHexColourString(origin[last.recv].args[1].s))
          => last.str = Canonical(origin[last.recv].args[1].s)

C1_Witness ==
    /\ last.op = "toString"
    /\ origin[last.recv].args = <<Str(<<"#", "A", "0", "f">>)>>
    /\ last.str = <<"#", "a", "a", "0", "0", "f", "f">>

\* C5: a single string starting with '#' that is not '#' + 3 or 6 hex digits
\* fails with the hex-colour error, which differs from the arguments error,
\* and creates nothing; a single string not starting with '#' fails with the
\* arguments error.
C5_BadStringErrors ==
    StringConstruction =>
        LET str == last.args[1].s
        IN  /\ (str # <<>> /\ str[1] = "#" /\ ~IsHexColourString(str))
                  => /\ last.err = InvalidHexColour
                     /\ last.err \notin InvalidColourArguments
                     /\ heap = <<>>
            /\ (str = <<>> \/ str[1] # "#")
                  => /\ last.err \in InvalidColourArguments
                     /\ heap = <<>>

\* '#' followed by more than six hex digits is rejected
C5_Witness ==
    /\ StringConstruction
    /\ Len(last.args[1].s) > 7
    /\ last.args[1].s[1] = "#"
    /\ \A i \in 2..Len(last.args[1].s) : last.args[1].s[i] \in HexDigitSet
    /\ last.err = InvalidHexColour
    /\ heap = <<>>

(* -------------------------- numeric vocabulary ------------------------- *)

IsRealNumber(v) == v.t = "number" /\ ~v.nan

\* v is a number in [0, max]
InRange(v, max) == IsRealNumber(v) /\ 0 <= v.q /\ v.q <= 4 * max

\* v is a number less than 0 or greater than max
OutOfRange(v, max) == IsRealNumber(v) /\ (v.q < 0 \/ v.q > 4 * max)

IsInteger(v) == IsRealNumber(v) /\ v.q % 4 = 0

IsRGB(k) == heap[k].cls = "ColourRGB"
IsHSL(k) == heap[k].cls = "ColourHSL"

\* the alpha the creating call supplied for instance k (undefined if none)
SuppliedAlpha(k) ==
    IF origin[k].recv = 0 THEN ArgAt(origin[k].args, 4) ELSE origin[k].args[1]

LowerHexDigits == <<"0", "1", "2", "3", "4", "5", "6", "7", "8", "9",
                    "a", "b", "c", "d", "e", "f">>

\* two lower-case hex digits of an integer 0..255 held in v
HexPair(v) ==
    <<LowerHexDigits[((v.q \div 4) \div 16) + 1],
      LowerHexDigits[((v.q \div 4) % 16) + 1]>>

HexText(r, g, b) == <<"#">> \o HexPair(r) \o HexPair(g) \o HexPair(b)

Sep == <<",", " ">>

RgbaText(r, g, b, a) ==
    <<"r", "g", "b", "a", "(">> \o NumberToString(r, 10) \o Sep
    \o NumberToString(g, 10) \o Sep \o NumberToString(b, 10) \o Sep
    \o NumberToString(a, 10) \o <<")">>

HslText(h, s, l) ==
    <<"h", "s", "l", "(">> \o NumberToString(h, 10) \o Sep
    \o NumberToString(s, 10) \o <<"%">> \o Sep
    \o NumberToString(l, 10) \o <<"%", ")">>

HslaText(h, s, l, a) ==
    <<"h", "s", "l", "a", "(">> \o NumberToString(h, 10) \o Sep
    \o NumberToString(s, 10) \o <<"%">> \o Sep
    \o NumberToString(l, 10) \o <<"%">> \o Sep
    \o NumberToString(a, 10) \o <<")">>

TextOf(o) == IF o.cls = "ColourRGB" THEN RGBtoString(o) ELSE HSLtoString(o)

(* --------------------------------- C2 ---------------------------------- *)

\* C2: for integer r, g, b in [0,255] and every a in [0,1], 0 included,
\* new ColourRGB(r,g,b,a).alpha(a).toString() is '#rrggbb' when a = 1 and
\* 'rgba(r, g, b, a)' with the given a otherwise.
C2_AlphaThenToString ==
    (/\ last.op = "toString"
     /\ IsRGB(last.recv)
     /\ origin[last.recv].recv # 0
     /\ origin[origin[last.recv].recv].recv = 0
     /\ Len(origin[origin[last.recv].recv].args) = 4)
    => LET made == origin[origin[last.recv].recv].args
           a == origin[last.recv].args[1]
       IN  (/\ made[4] = a
            /\ InRange(a, 1)
            /\ \A i \in 1..3 : IsInteger(made[i]) /\ InRange(made[i], 255))
           => last.str = IF a = Num(1)
                         THEN HexText(made[1], made[2], made[3])
                         ELSE RgbaText(made[1], made[2], made[3], a)

(* --------------------------------- C3 ---------------------------------- *)

\* C3: an alpha() call, returning or throwing, leaves every existing instance
\* (the receiver included) with the same channels and the same toString();
\* when it returns, the result is a new instance distinct from the receiver;
\* when it throws, no instance is created.
C3_AlphaKeepsReceiver ==
    [][last'.op = "alpha" =>
          /\ Len(heap') >= Len(heap)
          /\ \A k \in 1..Len(heap) :
                heap'[k] = heap[k] /\ TextOf(heap'[k]) = TextOf(heap[k])
          /\ last'.err = "" =>
                /\ Len(heap') = Len(heap) + 1
                /\ last'.ret = Len(heap')
                /\ last'.ret # last'.recv
          /\ last'.err # "" => heap' = heap]_vars

\* an alpha() call returned an instance that prints differently from its
\* receiver
C3_Witness ==
    /\ last.op = "alpha"
    /\ last.err = ""
    /\ IsRGB(last.recv)
    /\ TextOf(heap[last.ret]) # TextOf(heap[last.recv])

(* --------------------------------- C4 ---------------------------------- *)

\* C4: new ColourRGB with 3 or 4 numeric arguments throws the arguments error
\* whenever r, g or b is below 0 or above 255 or a supplied alpha is below 0
\* or above 1, and returns an instance whenever every supplied value is
\* within its range.
C4_RGBRangeCheck ==
    (last.op = "new ColourRGB" /\ Len(last.args) \in {3, 4})
    => LET given == last.args
           anyOut == \/ \E i \in 1..3 : OutOfRange(given[i], 255)
                     \/ Len(given) = 4 /\ OutOfRange(given[4], 1)
           allIn == /\ \A i \in 1..3 : InRange(given[i], 255)
                    /\ Len(given) = 4 => InRange(given[4], 1)
       IN  /\ anyOut => last.err = ErrRGB /\ last.ret = 0 /\ heap = <<>>
           /\ allIn => last.err = "" /\ IsRGB(last.ret)

\* new ColourRGB(256, 0, 0) throws
C4_Witness ==
    /\ last.op = "new ColourRGB"
    /\ last.args = <<Num(256), Num(0), Num(0)>>
    /\ last.err = ErrRGB

(* --------------------------------- C6 ---------------------------------- *)

\* C6: toString() of a ColourHSL is 'hsl(h, s%, l%)' exactly when a = 1 and
\* 'hsla(h, s%, l%, a)' otherwise; an alpha of 0 given to the constructor or
\* to alpha() is kept, and an omitted alpha is 1.
C6_HSLToString ==
    /\ (last.op = "toString" /\ IsHSL(last.recv))
          => LET o == heap[last.recv]
             IN  last.str = IF o.a = Num(1) THEN HslText(o.h, o.s, o.l)
                            ELSE HslaText(o.h, o.s, o.l, o.a)
    /\ \A k \in 1..Len(heap) :
          IsHSL(k) =>
             /\ SuppliedAlpha(k) = Num(0) => heap[k].a = Num(0)
             /\ (origin[k].recv = 0 /\ Len(origin[k].args) = 3)
                   => heap[k].a = Num(1)

\* new ColourHSL(0, 100, 50, 0).toString() is 'hsla(0, 100%, 50%, 0)'
C6_Witness ==
    /\ last.op = "toString"
    /\ origin[last.recv] =
          [recv |-> 0, args |-> <<Num(0), Num(100), Num(50), Num(0)>>]
    /\ last.str = <<"h", "s", "l", "a", "(", "0", ",", " ", "1", "0", "0",
                    "%", ",", " ", "5", "0", "%", ",", " ", "0", ")">>

(* --------------------------------- C7 ---------------------------------- *)

\* C7: every ColourRGB instance that exists has integer r, g, b in [0,255]
\* and a in [0,1].
C7_RGBChannelsValid ==
    \A k \in 1..Len(heap) :
        IsRGB(k) =>
           /\ IsInteger(heap[k].r) /\ InRange(heap[k].r, 255)
           /\ IsInteger(heap[k].g) /\ InRange(heap[k].g, 255)
           /\ IsInteger(heap[k].b) /\ InRange(heap[k].b, 255)
           /\ InRange(heap[k].a, 1)

(* --------------------------------- C8 ---------------------------------- *)

C9_HSLRangeCheck ==
    /\ last.op = "new ColourHSL"
          => LET given == last.args
                 anyOut == \/ OutOfRange(given[1], 360)
                           \/ OutOfRange(given[2], 100)
                           \/ OutOfRange(given[3], 100)
                           \/ Len(given) = 4 /\ OutOfRange(given[4], 1)
                 allIn == /\ InRange(given[1], 360)
                          /\ InRange(given[2], 100)
                          /\ InRange(given[3], 100)
                          /\ Len(given) = 4 => InRange(given[4], 1)
             IN  /\ anyOut => last.err = ErrHSL /\ last.ret = 0 /\ heap = <<>>
                 /\ allIn => last.err = "" /\ IsHSL(last.ret)
    /\ (last.op = "alpha" /\ IsHSL(last.recv))
          => /\ OutOfRange(last.args[1], 1)
                   => last.err = ErrHSL /\ last.ret = 0
             /\ InRange(last.args[1], 1)
                   => last.err = "" /\ IsHSL(last.ret)

\* new ColourHSL(360, 100, 100, 0) returns an instance
C9_Witness ==
    /\ last.op = "new ColourHSL"
    /\ last.args = <<Num(360), Num(100), Num(100), Num(0)>>
    /\ last.err = ""
    /\ heap[last.ret].h = Num(360)

(* --------------------------------- C10 --------------------------------- *)

\* the instance c.alpha(y) for instance c
DirectAlpha(c, y) ==
    IF c.cls = "ColourRGB" THEN RGBalpha(c, y) ELSE HSLalpha(c, y)

SameChannels(o, c) ==
    IF c.cls = "ColourRGB"
    THEN o.cls = "ColourRGB" /\ o.r = c.r /\ o.g = c.g /\ o.b = c.b
    ELSE o.cls = "ColourHSL" /\ o.h = c.h /\ o.s = c.s /\ o.l = c.l

\* instance k is c.alpha(x).alpha(y) for some instance c
IsChained(k) ==
    /\ k \in 1..Len(heap)
    /\ origin[k].recv # 0
    /\ origin[origin[k].recv].recv # 0

\* C10: c.alpha(x).alpha(y) has the channels of c and the same toString() as
\* c.alpha(y), for ColourRGB and ColourHSL.
C10_LastAlphaWins ==
    \A k \in 1..Len(heap) :
        IsChained(k)
        => LET c == heap[origin[origin[k].recv].recv]
               direct == DirectAlpha(c, origin[k].args[1])
           IN  /\ direct.err = ""
               /\ SameChannels(heap[k], c)
               /\ TextOf(heap[k]) = TextOf(direct.obj)
               /\ (last.op = "toString" /\ last.recv = k)
                     => last.str = TextOf(direct.obj)

\* c.alpha(x).alpha(y).toString() was called with x # y and x not c's alpha
C10_Witness ==
    /\ last.op = "toString"
    /\ IsChained(last.recv)
    /\ IsRGB(last.recv)
    /\ origin[last.recv].args # origin[origin[last.recv].recv].args
    /\ heap[origin[last.recv].recv].a
          # heap[origin[origin[last.recv].recv].recv].a

====
